---- MODULE Spec2Model ----
(***************************************************************************)
(* Model of the question-bank loader of cbse-qa-generator-web:             *)
(* ManifestLoader (src/manifest_loader.py), the file settings of           *)
(* src/config.py and the practice session of src/app.py.                   *)
(*                                                                         *)
(* Python strings are modelled as sequences of one-character strings, so   *)
(* that str.replace, str.strip, str.startswith, str.split and int() are    *)
(* computed character by character, as the interpreter computes them.      *)
(***************************************************************************)
EXTENDS Integers, Sequences, FiniteSets, TLC

VARIABLES
    name1, name2,          \* two caller-supplied names handed to normalize_name / names_match
    style1, style2,        \* the letter case each of the two callers writes names in
    files,                 \* the question files on disk: path -> bytes
    manifests,             \* the JSON files on disk under manifests/: path -> content
    master_manifest,       \* ManifestLoader.master_manifest
    individual_manifests,  \* ManifestLoader.individual_manifests: q_type -> manifest data
    phase,                 \* "start" before ManifestLoader() ran, then "ready" or "failed"
    session,               \* the web session of app.py: session_id -> practice session
    ret                    \* the last call made and what it returned

nameVars == <<name1, name2, style1, style2>>
diskVars == <<files, manifests>>
loaderVars == <<master_manifest, individual_manifests, phase>>
vars == <<name1, name2, style1, style2, files, manifests,
          master_manifest, individual_manifests, phase, session, ret>>

(***************************************************************************)
(* Bounds of the model.                                                    *)
(***************************************************************************)
MaxWords == 3        \* words in a generated subject/lesson name
MaxFileLines == 5    \* lines of a generated question file
MaxOptionLines == 3  \* lines written under the head of a generated choice question
MaxEntries == 2      \* entries of a generated individual manifest
MaxFieldLines == 4   \* lines of a generated file of multi-line fields

(***************************************************************************)
(* Python str primitives on sequences of characters.                       *)
(***************************************************************************)
UpperLetters == <<"A", "B", "C", "D", "E", "F", "G", "H", "I", "J", "K", "L", "M", "N", "O", "P", "Q", "R", "S", "T", "U", "V", "W", "X", "Y", "Z">>
LowerLetters == <<"a", "b", "c", "d", "e", "f", "g", "h", "i", "j", "k", "l", "m", "n", "o", "p", "q", "r", "s", "t", "u", "v", "w", "x", "y", "z">>
Digits == <<"0", "1", "2", "3", "4", "5", "6", "7", "8", "9">>
Whitespace == {" ", "\n", "\t", "\r"}

IndexOf(c, alphabet) ==
    IF \E i \in 1..Len(alphabet) : alphabet[i] = c
    THEN CHOOSE i \in 1..Len(alphabet) : alphabet[i] = c
    ELSE 0

\* str.lower(), one character
LowerChar(c) ==
    LET i == IndexOf(c, UpperLetters) IN IF i = 0 THEN c ELSE LowerLetters[i]

\* str.upper(), one character
UpperChar(c) ==
    LET i == IndexOf(c, LowerLetters) IN IF i = 0 THEN c ELSE UpperLetters[i]

\* str.lower()
Lower(s) == [i \in 1..Len(s) |-> LowerChar(s[i])]

\* str.startswith(prefix)
StartsWith(s, prefix) ==
    /\ Len(prefix) <= Len(s)
    /\ SubSeq(s, 1, Len(prefix)) = prefix

\* the least / greatest member of a non-empty set of indices
Min(S) == CHOOSE i \in S : \A j \in S : i <= j
Max(S) == CHOOSE i \in S : \A j \in S : i >= j

\* the least member of a set of indices, 0 when it is empty
First(hits) == IF hits = {} THEN 0 ELSE Min(hits)

\* str.find(sub): the index of the first occurrence of sub in s, 0 when there is none
Find(s, sub) ==
    First({i \in 1..(Len(s) - Len(sub) + 1) :
              s[i] = sub[1] /\ SubSeq(s, i, i + Len(sub) - 1) = sub})

\* str.replace(old, new): every non-overlapping occurrence, scanning left to
\* right; i is the index of the first occurrence in s
RECURSIVE Replace(_, _, _)
ReplaceFrom(s, old, new, i) ==
    IF i = 0 THEN s
    ELSE SubSeq(s, 1, i - 1) \o new \o Replace(SubSeq(s, i + Len(old), Len(s)), old, new)

Replace(s, old, new) == ReplaceFrom(s, old, new, Find(s, old))

\* the part of s between the first and the last index of keep
Between(s, keep) == IF keep = {} THEN <<>> ELSE SubSeq(s, Min(keep), Max(keep))

\* str.rstrip(chars): drop trailing members of chars
UpTo(s, keep) == IF keep = {} THEN <<>> ELSE SubSeq(s, 1, Max(keep))
RStrip(s, chars) == UpTo(s, {i \in 1..Len(s) : s[i] \notin chars})

\* str.strip(chars) / str.strip(): drop leading and trailing members of chars
StripChars(s, chars) == Between(s, {i \in 1..Len(s) : s[i] \notin chars})
Strip(s) == StripChars(s, Whitespace)

\* str.split(sep): the pieces between the occurrences of sep (always at least
\* one piece); i is the index of the first occurrence in s
RECURSIVE Split(_, _)
SplitFrom(s, sep, i) ==
    IF i = 0 THEN <<s>>
    ELSE <<SubSeq(s, 1, i - 1)>> \o Split(SubSeq(s, i + Len(sep), Len(s)), sep)

Split(s, sep) == SplitFrom(s, sep, Find(s, sep))

(***************************************************************************)
(* ManifestLoader.normalize_name and names_match.                          *)
(***************************************************************************)
\* the replacements table, in the dict's insertion order
replacements == <<
    <<<<"_", "a", "n", "d", "_">>, <<"_">>>>,
    <<<<"_", "o", "f", "_">>, <<"_">>>>,
    <<<<"_", "t", "h", "e", "_">>, <<"_">>>>,
    <<<<"_", "i", "n", "_">>, <<"_">>>>,
    <<<<"d", "e", "m", "o", "c", "r", "a", "t", "i", "c", "_", "p", "o", "l", "i", "t", "i", "c", "s">>, <<"d", "e", "m", "o", "c", "r", "a", "t", "i", "c", "_", "p", "o", "l", "i", "t", "i", "c", "s">>>>,
    <<<<"n", "a", "t", "i", "o", "n", "a", "l", "i", "s", "m", "_", "i", "n", "_", "i", "n", "d", "i", "a">>, <<"n", "a", "t", "i", "o", "n", "a", "l", "i", "s", "m", "_", "i", "n", "_", "i", "n", "d", "i", "a">>>>,
    <<<<"r", "i", "s", "e", "_", "o", "f", "_", "n", "a", "t", "i", "o", "n", "a", "l", "i", "s", "m", "_", "i", "n", "_", "e", "u", "r", "o", "p", "e">>, <<"r", "i", "s", "e", "_", "o", "f", "_", "n", "a", "t", "i", "o", "n", "a", "l", "i", "s", "m", "_", "i", "n", "_", "e", "u", "r", "o", "p", "e">>>>,
    <<<<"p", "r", "i", "n", "t", "_", "c", "u", "l", "t", "u", "r", "e", "_", "a", "n", "d", "_", "t", "h", "e", "_", "m", "o", "d", "e", "r", "n", "_", "w", "o", "r", "l", "d">>, <<"p", "r", "i", "n", "t", "_", "c", "u", "l", "t", "u", "r", "e", "_", "a", "n", "d", "_", "t", "h", "e", "_", "m", "o", "d", "e", "r", "n", "_", "w", "o", "r", "l", "d">>>>,
    <<<<"t", "h", "e", "_", "m", "a", "k", "i", "n", "g", "_", "o", "f", "_", "a", "_", "g", "l", "o", "b", "a", "l", "_", "w", "o", "r", "l", "d">>, <<"t", "h", "e", "_", "m", "a", "k", "i", "n", "g", "_", "o", "f", "_", "a", "_", "g", "l", "o", "b", "a", "l", "_", "w", "o", "r", "l", "d">>>>,
    <<<<"g", "l", "o", "b", "a", "l", "i", "s", "a", "t", "i", "o", "n", "_", "a", "n", "d", "_", "t", "h", "e", "_", "i", "n", "d", "i", "a", "n", "_", "e", "c", "o", "n", "o", "m", "y">>, <<"g", "l", "o", "b", "a", "l", "i", "s", "a", "t", "i", "o", "n", "_", "a", "n", "d", "_", "t", "h", "e", "_", "i", "n", "d", "i", "a", "n", "_", "e", "c", "o", "n", "o", "m", "y">>>>,
    <<<<"s", "e", "c", "t", "o", "r", "s", "_", "o", "f", "_", "t", "h", "e", "_", "i", "n", "d", "i", "a", "n", "_", "e", "c", "o", "n", "o", "m", "y">>, <<"s", "e", "c", "t", "o", "r", "s", "_", "o", "f", "_", "t", "h", "e", "_", "i", "n", "d", "i", "a", "n", "_", "e", "c", "o", "n", "o", "m", "y">>>>,
    <<<<"f", "o", "r", "e", "s", "t", "_", "a", "n", "d", "_", "w", "i", "l", "d", "l", "i", "f", "e", "_", "r", "e", "s", "o", "u", "r", "c", "e", "s">>, <<"f", "o", "r", "e", "s", "t", "_", "a", "n", "d", "_", "w", "i", "l", "d", "l", "i", "f", "e", "_", "r", "e", "s", "o", "u", "r", "c", "e", "s">>>>,
    <<<<"l", "a", "n", "d", "_", "w", "a", "t", "e", "r", "_", "s", "o", "i", "l", "_", "a", "n", "d", "_", "n", "a", "t", "u", "r", "a", "l", "_", "v", "e", "g", "e", "t", "a", "t", "i", "o", "n", "_", "r", "e", "s", "o", "u", "r", "c", "e", "s">>, <<"l", "a", "n", "d", "_", "w", "a", "t", "e", "r", "_", "s", "o", "i", "l", "_", "a", "n", "d", "_", "n", "a", "t", "u", "r", "a", "l", "_", "v", "e", "g", "e", "t", "a", "t", "i", "o", "n", "_", "r", "e", "s", "o", "u", "r", "c", "e", "s">>>>,
    <<<<"m", "i", "n", "e", "r", "a", "l", "_", "a", "n", "d", "_", "e", "n", "e", "r", "g", "y", "_", "r", "e", "s", "o", "u", "r", "c", "e", "s">>, <<"m", "i", "n", "e", "r", "a", "l", "_", "a", "n", "d", "_", "e", "n", "e", "r", "g", "y", "_", "r", "e", "s", "o", "u", "r", "c", "e", "s">>>> >>

\* for old, new in replacements.items(): normalized = normalized.replace(old, new)
RECURSIVE ApplyReplacements(_, _)
ApplyReplacements(s, i) ==
    IF i > Len(replacements) \/ s = <<>> THEN s      \* nothing to replace in ''
    ELSE ApplyReplacements(Replace(s, replacements[i][1], replacements[i][2]), i + 1)

\* a plausible slip: the hyphen replacement left out
CanonicalNoHyphen(name) ==
    Replace(Replace(Lower(name), <<" ">>, <<"_">>), <<"_", "_">>, <<"_">>)

\* the separator canonicalisation of normalize_name (lines 78-83)
Canonical(name) ==
    Replace(Replace(Replace(Lower(name), <<" ">>, <<"_">>), <<"-">>, <<"_">>), <<"_", "_">>, <<"_">>)

normalize_name(name) ==
    IF name = <<>> THEN <<>>
    ELSE StripChars(ApplyReplacements(Canonical(name), 1), {"_"})

names_match(n1, n2) == normalize_name(n1) = normalize_name(n2)

(***************************************************************************)
(* File decoding (Config.Files: ENCODING = "utf-8", FALLBACK_ENCODING =    *)
(* "latin-1").  A file is a sequence of bytes; an ASCII byte is written as *)
(* its character and the byte 0xE9 as "#E9".                               *)
(***************************************************************************)
HighByte == "#E9"
HighChar == "U+00E9"     \* the character latin-1 decodes 0xE9 to

\* open(..., encoding='utf-8').read(): 0xE9 opens a three-byte sequence and no
\* continuation byte (0x80..0xBF) ever follows it here, so the decoder raises
\* UnicodeDecodeError; ASCII bytes decode to themselves
Utf8Decodable(bytes) == \A i \in 1..Len(bytes) : bytes[i] # HighByte
Utf8Decode(bytes) == bytes

\* bytes.decode('latin-1'): never fails, byte value = code point
Latin1Decode(bytes) ==
    [i \in 1..Len(bytes) |-> IF bytes[i] = HighByte THEN HighChar ELSE bytes[i]]

(***************************************************************************)
(* ManifestLoader.parse_options.                                           *)
(***************************************************************************)
\* the lookahead \([A-D]\) matches at the head of s
MarkerAhead(s) ==
    /\ Len(s) >= 3
    /\ s[1] = "(" /\ s[2] \in {"A", "B", "C", "D"} /\ s[3] = ")"

\* re.split(r'(?=\([A-D]\))', text): cut before every marker (an empty first
\* piece when the text opens with one); i is the first cut, 0 when there is none
RECURSIVE ReSplit(_, _)
ReSplitAt(s, i) ==
    IF i = 0 THEN <<s>>
    ELSE <<SubSeq(s, 1, i - 1)>> \o ReSplit(SubSeq(s, i, Len(s)), 2)

ReSplit(s, from) ==
    ReSplitAt(s, First({i \in from..Len(s) : MarkerAhead(SubSeq(s, i, Len(s)))}))

\* `if part and part.startswith('(')` on a stripped part
KeepPart(part) == IF part # <<>> /\ StartsWith(part, <<"(">>) THEN <<part>> ELSE <<>>

RECURSIVE KeepOptions(_)
KeepOptions(parts) ==
    IF parts = <<>> THEN <<>>
    ELSE KeepPart(Strip(Head(parts))) \o KeepOptions(Tail(parts))

parse_options(options_text) ==
    IF options_text = <<>> THEN <<>>
    ELSE KeepOptions(ReSplit(options_text, 1))

(***************************************************************************)
(* ManifestLoader.parse_question_block.                                    *)
(***************************************************************************)
\* int(text) of an already stripped text: an optional sign, then digits with
\* single underscores allowed between them; anything else raises ValueError
IsIntLiteral(text) ==
    LET body == IF text # <<>> /\ text[1] \in {"+", "-"} THEN Tail(text) ELSE text IN
    /\ body # <<>>
    /\ \A i \in 1..Len(body) : IndexOf(body[i], Digits) > 0 \/ body[i] = "_"
    /\ body[1] # "_" /\ body[Len(body)] # "_"
    /\ \A i \in 1..(Len(body) - 1) : ~(body[i] = "_" /\ body[i + 1] = "_")

RECURSIVE DigitsValue(_, _)
DigitsValue(body, acc) ==
    IF body = <<>> THEN acc
    ELSE IF body[1] = "_" THEN DigitsValue(Tail(body), acc)
    ELSE DigitsValue(Tail(body), 10 * acc + (IndexOf(body[1], Digits) - 1))

IntValue(text) ==
    IF text[1] = "-" THEN 0 - DigitsValue(Tail(text), 0)
    ELSE IF text[1] = "+" THEN DigitsValue(Tail(text), 0)
    ELSE DigitsValue(text, 0)

\* the question dict of lines 262-274
NewQuestion(q_type) ==
    [Type |-> q_type, Text |-> <<>>, Answer |-> <<>>, Options |-> <<>>, Marks |-> 1,
     Difficulty |-> <<"M", "e", "d", "i", "u", "m">>, Concept |-> <<>>, SourceText |-> <<>>,
     Events |-> <<>>, ColumnA |-> <<>>, ColumnB |-> <<>>]

\* line.replace(prefix, '').strip()
FieldValue(line, prefix) == Strip(Replace(line, prefix, <<>>))

\* the source's `text or '1'`
OrOne(text) == IF text = <<>> THEN <<"1">> ELSE text

\* the value after 'Marks:' that int() is applied to
MarksText(line) == OrOne(FieldValue(line, <<"M", "a", "r", "k", "s", ":">>))

\* a plausible slip: the continuation test made as strict as parse_options' split
OptionLineStrict(line) == MarkerAhead(line)

\* the test a continuation line must pass to become an entry of Options (line 314)
OptionLine(line) == StartsWith(line, <<"(">>)

\* `elif current_field and line:` (lines 311-317); st.cur is "None" when unset
ContinueField(st, line) ==
    IF st.cur = "None" THEN st
    ELSE IF st.cur = "Options"
         THEN IF OptionLine(line)
              THEN [st EXCEPT !.q.Options = Append(@, line)]
              ELSE st
    ELSE IF st.cur = "Events"
         \* list += str extends the list by the characters of the string
         THEN [st EXCEPT !.q.Events = @ \o [i \in 1..(Len(line) + 1) |->
                                              <<(<<" ">> \o line)[i]>>]]
    ELSE IF st.cur = "Text" THEN [st EXCEPT !.q.Text = @ \o <<" ">> \o line]
    ELSE IF st.cur = "Answer" THEN [st EXCEPT !.q.Answer = @ \o <<" ">> \o line]
    ELSE [st EXCEPT !.q.SourceText = @ \o <<" ">> \o line]

\* the Options: branch (lines 293-296)
SetOptions(st, options_text) ==
    IF options_text # <<>>
    THEN [st EXCEPT !.cur = "Options", !.q.Options = parse_options(options_text)]
    ELSE [st EXCEPT !.cur = "Options"]

\* the Marks: branch (line 298); text is what int() is applied to
SetMarks(st, text) ==
    IF IsIntLiteral(text)
    THEN [st EXCEPT !.q.Marks = IntValue(text)]
    ELSE [st EXCEPT !.raised = TRUE]      \* int() raises ValueError

\* the Events: branch (lines 307-310)
SetEvents(st, events_text) ==
    IF events_text # <<>>
    THEN [st EXCEPT !.cur = "Events", !.q.Events = Split(events_text, <<"\n">>)]
    ELSE [st EXCEPT !.cur = "Events"]

\* the field detection on a stripped line (lines 280-317).  st = [q, cur, raised]
ParseStripped(st, line) ==
    IF st.raised \/ line = <<>> THEN st
    ELSE IF StartsWith(line, <<"T", "y", "p", "e", ":">>)
         THEN [st EXCEPT !.q.Type = FieldValue(line, <<"T", "y", "p", "e", ":">>)]
    ELSE IF StartsWith(line, <<"T", "e", "x", "t", ":">>)
         THEN [st EXCEPT !.cur = "Text", !.q.Text = FieldValue(line, <<"T", "e", "x", "t", ":">>)]
    ELSE IF StartsWith(line, <<"A", "n", "s", "w", "e", "r", ":">>)
         THEN [st EXCEPT !.cur = "Answer", !.q.Answer = FieldValue(line, <<"A", "n", "s", "w", "e", "r", ":">>)]
    ELSE IF StartsWith(line, <<"O", "p", "t", "i", "o", "n", "s", ":">>)
         THEN SetOptions(st, FieldValue(line, <<"O", "p", "t", "i", "o", "n", "s", ":">>))
    ELSE IF StartsWith(line, <<"M", "a", "r", "k", "s", ":">>)
         THEN SetMarks(st, MarksText(line))
    ELSE IF StartsWith(line, <<"C", "o", "n", "c", "e", "p", "t", ":">>)
         THEN [st EXCEPT !.q.Concept = FieldValue(line, <<"C", "o", "n", "c", "e", "p", "t", ":">>)]
    ELSE IF StartsWith(line, <<"D", "i", "f", "f", "i", "c", "u", "l", "t", "y", ":">>)
         THEN [st EXCEPT !.q.Difficulty = FieldValue(line, <<"D", "i", "f", "f", "i", "c", "u", "l", "t", "y", ":">>)]
    ELSE IF StartsWith(line, <<"S", "o", "u", "r", "c", "e", "T", "e", "x", "t", ":">>)
         THEN [st EXCEPT !.cur = "SourceText",
                         !.q.SourceText = FieldValue(line, <<"S", "o", "u", "r", "c", "e", "T", "e", "x", "t", ":">>)]
    ELSE IF StartsWith(line, <<"E", "v", "e", "n", "t", "s", ":">>)
         THEN SetEvents(st, FieldValue(line, <<"E", "v", "e", "n", "t", "s", ":">>))
    ELSE ContinueField(st, line)

\* one iteration of `for line in lines` (lines 278-317)
ParseLine(st, rawLine) == ParseStripped(st, Strip(rawLine))

\* the loop over the lines; an exception ends it
RECURSIVE ParseLines(_, _)
ParseLines(st, lines) ==
    IF lines = <<>> \/ st.raised THEN st
    ELSE ParseLines(ParseLine(st, Head(lines)), Tail(lines))

\* the outcome of parse_question_block: a question, None, or an exception
Raised == [kind |-> "raise"]
None == [kind |-> "None"]
Returned(v) == [kind |-> "value", value |-> v]

\* the return of line 319, or the exception raised in the loop
BlockResult(st) ==
    IF st.raised THEN Raised
    ELSE IF st.q.Text # <<>> THEN Returned(st.q)
    ELSE None

parse_question_block(block, q_type) ==
    BlockResult(ParseLines([q |-> NewQuestion(q_type), cur |-> "None", raised |-> FALSE],
                           Split(block, <<"\n">>)))

(***************************************************************************)
(* ManifestLoader.parse_standard_questions.                                *)
(***************************************************************************)
QuestionMarker == <<"[", "Q", "U", "E", "S", "T", "I", "O", "N", "]">>

\* `if question: questions.append(question)` (lines 250-251), or the exception
\* of the block leaving the loop.  acc = [questions, raised]
Collect(acc, question) ==
    IF question.kind = "raise" THEN [acc EXCEPT !.raised = TRUE]
    ELSE IF question.kind = "value"
         THEN [acc EXCEPT !.questions = Append(@, question.value)]
    ELSE acc

\* one iteration of `for block in question_blocks[1:]` (lines 245-251)
ParseBlock(acc, block, q_type) ==
    IF Strip(block) = <<>> THEN acc
    ELSE Collect(acc, parse_question_block(Strip(block), q_type))

\* the loop inside the try: an exception leaves the loop and the questions
\* collected so far are returned
RECURSIVE ParseBlocks(_, _, _)
ParseBlocks(acc, blocks, q_type) ==
    IF blocks = <<>> \/ acc.raised THEN acc
    ELSE ParseBlocks(ParseBlock(acc, Head(blocks), q_type), Tail(blocks), q_type)

\* the parse of a text already decoded
ParseText(text, q_type) ==
    ParseBlocks([questions |-> <<>>, raised |-> FALSE],
                Tail(Split(text, QuestionMarker)), q_type).questions

\* what the read of the file hands to the parser: the decoded text, or a
\* decoding error raised inside the try
ReadFile(bytes) ==
    IF Utf8Decodable(bytes) THEN Returned(Utf8Decode(bytes)) ELSE Raised

\* the except of lines 253-254 returns the (empty) list when the read raised
ParseRead(read, q_type) ==
    IF read.kind = "raise" THEN <<>> ELSE ParseText(read.value, q_type)

parse_standard_questions(bytes, q_type) == ParseRead(ReadFile(bytes), q_type)

(***************************************************************************)
(* Python values read from JSON.  A dict keeps its items in insertion      *)
(* order, as a sequence of <<key, value>> pairs.                           *)
(***************************************************************************)
JNull == [k |-> "null"]
JBool(b) == [k |-> "bool", v |-> b]
JNum(n) == [k |-> "num", v |-> n]
JStr(s) == [k |-> "str", v |-> s]
JList(items) == [k |-> "list", items |-> items]
JDict(items) == [k |-> "dict", items |-> items]
EmptyDict == JDict(<<>>)

\* bool(v)
Truthy(v) ==
    CASE v.k = "null" -> FALSE
      [] v.k = "bool" -> v.v
      [] v.k = "num" -> v.v # 0
      [] v.k = "str" -> v.v # <<>>
      [] OTHER -> v.items # <<>>

\* len(v) is defined (str, list, dict); otherwise len raises TypeError
HasLen(v) == v.k \in {"str", "list", "dict"}

\* d.get(key, default) of a dict d
DictGet(d, key, default) ==
    IF \E i \in 1..Len(d.items) : d.items[i][1] = key
    THEN d.items[CHOOSE i \in 1..Len(d.items) : d.items[i][1] = key][2]
    ELSE default

\* os.path.join(a, b)
PathJoin(a, b) ==
    IF b # <<>> /\ b[1] = "/" THEN b
    ELSE IF a = <<>> \/ a[Len(a)] = "/" THEN a \o b
    ELSE a \o <<"/">> \o b

\* os.path.dirname(path)
DirName(path) ==
    LET slashes == {i \in 1..Len(path) : path[i] = "/"} IN
    IF slashes = {} THEN <<>>
    ELSE LET head == SubSeq(path, 1, CHOOSE i \in slashes : \A j \in slashes : i >= j) IN
         IF \A i \in 1..Len(head) : head[i] = "/" THEN head ELSE RStrip(head, {"/"})

\* the code point of a printable ASCII character
\* (the grave accent, code point 96, is written "U+0060")
Ascii == <<" ", "!", "\"", "#", "$", "%", "&", "'", "(", ")", "*", "+", ",", "-", ".", "/", "0", "1", "2", "3", "4", "5", "6", "7", "8", "9", ":", ";", "<", "=", ">", "?">> \o <<"@">> \o <<"A", "B", "C", "D", "E", "F", "G", "H", "I", "J", "K", "L", "M", "N", "O", "P", "Q", "R", "S", "T", "U", "V", "W", "X", "Y", "Z", "[", "\\", "]", "^", "_">>
         \o <<"U+0060">> \o <<"a", "b", "c", "d", "e", "f", "g", "h", "i", "j", "k", "l", "m", "n", "o", "p", "q", "r", "s", "t", "u", "v", "w", "x", "y", "z", "{", "|", "}", "~">>
CodePoint(c) == 31 + IndexOf(c, Ascii)

\* a < b on str: lexicographic by code point
StrLess(a, b) ==
    \E i \in 1..(Len(a) + 1) :
        /\ \A j \in 1..(i - 1) : j <= Len(b) /\ a[j] = b[j]
        /\ i <= Len(b)
        /\ (i > Len(a) \/ CodePoint(a[i]) < CodePoint(b[i]))

\* sorted(list(strings)) of a set of str
RECURSIVE SortedStrings(_)
SortedStrings(strings) ==
    IF strings = {} THEN <<>>
    ELSE LET least == CHOOSE a \in strings : \A b \in strings \ {a} : StrLess(a, b) IN
         <<JStr(least)>> \o SortedStrings(strings \ {least})

(***************************************************************************)
(* ManifestLoader.__init__: load_master_manifest, then                      *)
(* load_all_individual_manifests.                                           *)
(***************************************************************************)
manifests_path == <<"m", "a", "n", "i", "f", "e", "s", "t", "s">>
MasterPath == PathJoin(manifests_path, <<"m", "a", "s", "t", "e", "r", "_", "m", "a", "n", "i", "f", "e", "s", "t", ".", "j", "s", "o", "n">>)

\* a file whose content json.load cannot parse
Corrupt == [k |-> "corrupt"]

\* the value of self.master_manifest after load_master_manifest: every
\* exception (json.load on a corrupt file, .get on a non-dict, len of a value
\* without a length) is caught and leaves {}
load_master_manifest(disk) ==
    IF MasterPath \notin DOMAIN disk THEN EmptyDict
    ELSE LET data == disk[MasterPath] IN
         IF data = Corrupt THEN EmptyDict
         ELSE IF data.k # "dict" THEN EmptyDict
         ELSE IF ~HasLen(DictGet(data, <<"q", "u", "e", "s", "t", "i", "o", "n", "_", "t", "y", "p", "e", "s">>, EmptyDict)) THEN EmptyDict
         ELSE data

NoManifests == [t \in {} |-> EmptyDict]

SetManifest(individual, q_type, data) ==
    [t \in DOMAIN individual \cup {q_type} |-> IF t = q_type THEN data ELSE individual[t]]

\* a plausible slip: nothing recorded for a manifest file that is not on disk
load_individual_manifest_no_default(disk, individual, q_type, manifest_file) ==
    LET manifest_path == PathJoin(manifests_path, manifest_file) IN
    IF manifest_path \notin DOMAIN disk THEN individual
    ELSE LET data == disk[manifest_path] IN
         IF data = Corrupt THEN SetManifest(individual, q_type, EmptyDict)
         ELSE IF ~HasLen(data) THEN SetManifest(individual, q_type, EmptyDict)
         ELSE SetManifest(individual, q_type, data)

\* self.individual_manifests after load_individual_manifest(q_type, manifest_file)
load_individual_manifest(disk, individual, q_type, manifest_file) ==
    LET manifest_path == PathJoin(manifests_path, manifest_file) IN
    IF manifest_path \notin DOMAIN disk THEN SetManifest(individual, q_type, EmptyDict)
    ELSE LET data == disk[manifest_path] IN
         IF data = Corrupt THEN SetManifest(individual, q_type, EmptyDict)
         \* len(data) raises after the assignment; the except stores {}
         ELSE IF ~HasLen(data) THEN SetManifest(individual, q_type, EmptyDict)
         ELSE SetManifest(individual, q_type, data)

\* the loop of load_all_individual_manifests over question_types.items();
\* nothing catches what config.get or os.path.join raise
RECURSIVE LoadEach(_, _, _)
LoadEach(disk, items, individual) ==
    IF items = <<>> THEN Returned(individual)
    ELSE LET q_type == Head(items)[1]
             config == Head(items)[2] IN
         IF config.k # "dict" THEN Raised
         ELSE IF ~Truthy(DictGet(config, <<"e", "n", "a", "b", "l", "e", "d">>, JBool(TRUE)))
              THEN LoadEach(disk, Tail(items), individual)
         ELSE LET manifest_file == DictGet(config, <<"m", "a", "n", "i", "f", "e", "s", "t", "_", "f", "i", "l", "e">>, JNull) IN
              IF ~Truthy(manifest_file) THEN LoadEach(disk, Tail(items), individual)
              ELSE IF manifest_file.k # "str" THEN Raised
              ELSE LoadEach(disk, Tail(items),
                            load_individual_manifest(disk, individual, q_type,
                                                     manifest_file.v))

load_all_individual_manifests(disk, master) ==
    IF ~Truthy(master) THEN Returned(NoManifests)
    ELSE LET question_types == DictGet(master, <<"q", "u", "e", "s", "t", "i", "o", "n", "_", "t", "y", "p", "e", "s">>, EmptyDict) IN
         IF question_types.k # "dict" THEN Raised
         ELSE LoadEach(disk, question_types.items, NoManifests)

(***************************************************************************)
(* Lookups of ManifestLoader.  Each returns Returned(value) or Raised; the *)
(* subject, lesson and file_path of an entry are str or missing.           *)
(***************************************************************************)
\* normalize_name on a value of an entry (None and '' give '')
NormalizeValue(v) ==
    IF ~Truthy(v) THEN Returned(<<>>)
    ELSE IF v.k # "str" THEN Raised
    ELSE Returned(normalize_name(v.v))

\* n1 == n2 for two normalisation outcomes
SameName(n1, n2) ==
    IF n1.kind = "raise" \/ n2.kind = "raise" THEN Raised
    ELSE Returned(n1.value = n2.value)

NamesMatchValue(v1, v2) == SameName(NormalizeValue(v1), NormalizeValue(v2))

\* a plausible slip: the lesson left out of the test
MatchEntrySubjectOnly(entry, subjectMatch, lessonMatch, rest) ==
    IF subjectMatch.kind = "raise" THEN Raised
    ELSE IF subjectMatch.value THEN Returned(entry)
    ELSE rest

\* the test of lines 121-122 on an entry, rest being the outcome of the loop
\* over the remaining entries; the lesson is compared only when the subject matches
MatchEntry(entry, subjectMatch, lessonMatch, rest) ==
    IF subjectMatch.kind = "raise" THEN Raised
    ELSE IF ~subjectMatch.value THEN rest
    ELSE IF lessonMatch.kind = "raise" THEN Raised
    ELSE IF lessonMatch.value THEN Returned(entry)
    ELSE rest

RECURSIVE FindEntry(_, _, _)
FindEntry(items, target_subject, target_lesson) ==
    IF items = <<>> THEN Returned(JNull)
    ELSE IF Head(items)[2].k # "dict" THEN Raised       \* entry.get on a non-dict
    ELSE MatchEntry(Head(items)[2],
                    NamesMatchValue(DictGet(Head(items)[2], <<"s", "u", "b", "j", "e", "c", "t">>, JStr(<<>>)),
                                    JStr(target_subject)),
                    NamesMatchValue(DictGet(Head(items)[2], <<"l", "e", "s", "s", "o", "n">>, JStr(<<>>)),
                                    JStr(target_lesson)),
                    FindEntry(Tail(items), target_subject, target_lesson))

find_matching_entry(manifest_data, target_subject, target_lesson) ==
    IF manifest_data.k # "dict" THEN Raised
    ELSE FindEntry(manifest_data.items, target_subject, target_lesson)

LegacyPrefix == <<"d", "a", "t", "a", "_", "q", "p", "/">>
DataPrefix == <<"d", "a", "t", "a", "/">>

\* the 'Fix path if needed' of get_file_path (lines 203-204)
FixPath(file_path) ==
    IF StartsWith(file_path, LegacyPrefix)
    THEN Replace(file_path, LegacyPrefix, DataPrefix)
    ELSE file_path

\* lines 203-206 on the file_path of the matching entry
FixedPath(file_path) ==
    IF ~Truthy(file_path) THEN Returned(file_path)
    ELSE IF file_path.k # "str" THEN Raised
    ELSE Returned(JStr(FixPath(file_path.v)))

\* lines 199-209 on the outcome of find_matching_entry
PathOfEntry(matching_entry) ==
    IF matching_entry.kind = "raise" THEN Raised
    ELSE IF ~Truthy(matching_entry.value) THEN Returned(JNull)
    ELSE FixedPath(DictGet(matching_entry.value, <<"f", "i", "l", "e", "_", "p", "a", "t", "h">>, JNull))

get_file_path(individual, q_type, subject, lesson) ==
    IF q_type \notin DOMAIN individual THEN Returned(JNull)
    ELSE PathOfEntry(find_matching_entry(individual[q_type], subject, lesson))

\* the values of a dict, as a set
Values(data) == {data.items[i][2] : i \in 1..Len(data.items)}

\* the str values found under `field` in the entries that carry a truthy one
FieldValues(entries, field) ==
    {DictGet(entry, field, JNull).v :
        entry \in {e \in entries : Truthy(DictGet(e, field, JNull))}}

AllEntriesAreDicts(data) == \A i \in 1..Len(data.items) : data.items[i][2].k = "dict"

\* q_type is a str, or JNull for the call without an argument
get_available_subjects(master, individual, q_type) ==
    IF Truthy(q_type) /\ q_type.v \in DOMAIN individual
    THEN LET data == individual[q_type.v] IN
         IF data.k # "dict" THEN Raised
         ELSE IF ~AllEntriesAreDicts(data) THEN Raised
         ELSE Returned(JList(SortedStrings(FieldValues(Values(data), <<"s", "u", "b", "j", "e", "c", "t">>))))
    ELSE Returned(DictGet(master, <<"s", "u", "b", "j", "e", "c", "t", "s">>, JList(<<>>)))

get_available_lessons(individual, q_type, subject) ==
    IF q_type \notin DOMAIN individual THEN Returned(JList(<<>>))
    ELSE LET data == individual[q_type] IN
         IF data.k # "dict" THEN Raised
         ELSE IF ~AllEntriesAreDicts(data) THEN Raised
         ELSE LET ofSubject == {entry \in Values(data) :
                      NamesMatchValue(DictGet(entry, <<"s", "u", "b", "j", "e", "c", "t">>, JStr(<<>>)),
                                      JStr(subject)).value} IN
              Returned(JList(SortedStrings(FieldValues(ofSubject, <<"l", "e", "s", "s", "o", "n">>))))

\* get_enabled_question_types, as a sequence of <<q_type>> in dict order
RECURSIVE EnabledTypes(_)
EnabledTypes(items) ==
    IF items = <<>> THEN Returned(<<>>)
    ELSE LET rest == EnabledTypes(Tail(items)) IN
         IF Head(items)[2].k # "dict" THEN Raised
         ELSE IF rest.kind = "raise" THEN Raised
         ELSE IF Truthy(DictGet(Head(items)[2], <<"e", "n", "a", "b", "l", "e", "d">>, JBool(TRUE)))
              THEN Returned(<<Head(items)[1]>> \o rest.value)
              ELSE rest

get_enabled_question_types(master) ==
    LET question_types == DictGet(master, <<"q", "u", "e", "s", "t", "i", "o", "n", "_", "t", "y", "p", "e", "s">>, EmptyDict) IN
    IF question_types.k # "dict" THEN Raised ELSE EnabledTypes(question_types.items)

\* `if self.get_file_path(...): available_types.append(q_type)`, rest being the
\* outcome of the loop over the remaining types
AddType(q_type, path, rest) ==
    IF path.kind = "raise" \/ rest.kind = "raise" THEN Raised
    ELSE IF Truthy(path.value) THEN Returned(<<JStr(q_type)>> \o rest.value)
    ELSE rest

RECURSIVE TypesWithPath(_, _, _, _)
TypesWithPath(individual, types, subject, lesson) ==
    IF types = <<>> THEN Returned(<<>>)
    ELSE AddType(Head(types), get_file_path(individual, Head(types), subject, lesson),
                 TypesWithPath(individual, Tail(types), subject, lesson))

ListOf(found) == IF found.kind = "raise" THEN Raised ELSE Returned(JList(found.value))

\* the loop of lines 376-378 over the enabled types
TypesForLesson(enabled, individual, subject, lesson) ==
    IF enabled.kind = "raise" THEN Raised
    ELSE ListOf(TypesWithPath(individual, enabled.value, subject, lesson))

get_available_question_types_for_lesson(master, individual, subject, lesson) ==
    TypesForLesson(get_enabled_question_types(master), individual, subject, lesson)

\* lines 342-345: ImageFolder is added to the questions of a 'visual' file
AddImageFolder(parsed, file_path, q_type) ==
    IF q_type = <<"v", "i", "s", "u", "a", "l">>
    THEN [i \in 1..Len(parsed) |-> parsed[i] @@ ("ImageFolder" :> DirName(file_path))]
    ELSE parsed

\* parse_visual_map_questions: the standard parse, plus ImageFolder for 'visual'
parse_visual_map_questions(bytes, file_path, q_type) ==
    AddImageFolder(parse_standard_questions(bytes, q_type), file_path, q_type)

\* lines 215-229 on the outcome of get_file_path
LoadFrom(file_path, disk, q_type) ==
    IF file_path.kind = "raise" THEN Raised
    ELSE IF ~Truthy(file_path.value) THEN Returned(<<>>)
    ELSE IF file_path.value.v \notin DOMAIN disk THEN Returned(<<>>)
    ELSE IF q_type \in {<<"v", "i", "s", "u", "a", "l">>, <<"m", "a", "p">>}
         THEN Returned(parse_visual_map_questions(disk[file_path.value.v],
                                                  file_path.value.v, q_type))
         ELSE Returned(parse_standard_questions(disk[file_path.value.v], q_type))

\* get_file_path runs outside the try of load_questions_from_manifest
load_questions_from_manifest(individual, disk, q_type, subject, lesson) ==
    LoadFrom(get_file_path(individual, q_type, subject, lesson), disk, q_type)

\* the loader of a process started with no manifest on disk
NoFiles == [p \in {} |-> <<>>]

\* the web session before any practice session is started
NoSessions == [id \in {} |-> <<>>]

LoaderIdle ==
    /\ manifests = [p \in {} |-> EmptyDict]
    /\ master_manifest = EmptyDict
    /\ individual_manifests = NoManifests
    /\ phase = "ready"

(***************************************************************************)
(* Callers of names_match: two callers write the same name, each in its    *)
(* own letter case and with its own choice of separator at each gap.       *)
(***************************************************************************)
Separators == {" ", "-", "_"}
Styles == {"lower", "title"}
WordPool == {<<"a", "n", "d">>, <<"m", "a", "p">>}

ApplyStyle(word, style) ==
    CASE style = "lower" -> word
      [] style = "title" -> <<UpperChar(word[1])>> \o Tail(word)

WordCount(name) ==
    IF name = <<>> THEN 0
    ELSE 1 + Cardinality({i \in 1..Len(name) : name[i] \in Separators})

NoCall == [op |-> "none", out |-> [kind |-> "none"]]

NamesIdle == name1 = <<>> /\ name2 = <<>> /\ style1 = "lower" /\ style2 = "lower"

NamesInit ==
    /\ name1 = <<>> /\ name2 = <<>>
    /\ style1 \in Styles /\ style2 \in Styles
    /\ ret = NoCall
    /\ LoaderIdle /\ session = NoSessions /\ files = NoFiles

\* both callers write the first word of the name
StartName(w) ==
    /\ name1 = <<>>
    /\ name1' = ApplyStyle(w, style1)
    /\ name2' = ApplyStyle(w, style2)
    /\ ret' = NoCall
    /\ UNCHANGED <<style1, style2, diskVars, loaderVars, session>>

\* both callers write one more word, each after a separator of its choice
ExtendName(w, s1, s2) ==
    /\ name1 # <<>>
    /\ WordCount(name1) < MaxWords
    /\ name1' = name1 \o <<s1>> \o ApplyStyle(w, style1)
    /\ name2' = name2 \o <<s2>> \o ApplyStyle(w, style2)
    /\ ret' = NoCall
    /\ UNCHANGED <<style1, style2, diskVars, loaderVars, session>>

\* names_match(name1, name2)
NamesMatch ==
    /\ name1 # <<>>
    /\ ret' = [op |-> "names_match",
               norm1 |-> normalize_name(name1),
               norm2 |-> normalize_name(name2),
               match |-> names_match(name1, name2)]
    /\ UNCHANGED <<nameVars, diskVars, loaderVars, session>>

NamesNext ==
    \/ \E w \in WordPool : StartName(w)
    \/ \E w \in WordPool, s1 \in Separators, s2 \in Separators : ExtendName(w, s1, s2)
    \/ NamesMatch

SpecNames == NamesInit /\ [][NamesNext]_vars

\* C6: two names that differ only in letter case and in which of space, hyphen
\* or underscore stands at each separator position normalize to the identical
\* string, and names_match returns true for the pair.
C6_VariantsMatch ==
    ret.op = "names_match" => (ret.norm1 = ret.norm2 /\ ret.match = TRUE)

\* a pair of variants that really differ (case and separators) has been compared,
\* and a connector word was stripped from the name
C6_Witness ==
    /\ ret.op = "names_match"
    /\ name1 # name2
    /\ \E i \in 1..Len(name1) : name1[i] = "-" /\ name2[i] = " "
    /\ Len(ret.norm1) < Len(name1) - 3

(***************************************************************************)
(* Question files: an author writes a file line by line, and the loader    *)
(* parses whatever is on disk.                                             *)
(***************************************************************************)
Newline == <<"\n">>

\* the one question file the author works on, and its bytes
QuestionFile == <<"d", "a", "t", "a", "/", "h", "i", "s", "t", "o", "r", "y", "/", "n", "a", "t", ".", "t", "x", "t">>
content == files[QuestionFile]

LineCount(bytes) == Cardinality({i \in 1..Len(bytes) : bytes[i] = "\n"})

\* the lines an author of a short-answer file writes
ParseLinePool == {
    QuestionMarker,
    <<"T", "e", "x", "t", ":", " ", "W", "h", "a", "t", " ", "i", "s", " ", "f", "e", "d", "e", "r", "a", "l", "i", "s", "m", "?">>,
    <<"T", "e", "x", "t", ":", " ", "h", "i">>,
    <<"M", "a", "r", "k", "s", ":", " ", "t", "w", "o">>,
    <<"M", "a", "r", "k", "s", ":", " ", "2">>,
    <<"M", "a", "r", "k", "s", ":">>,
    <<"c", "a", "f", HighByte>> }       \* "caf\xe9", written in latin-1

\* the author appends one line to the file
WriteLine(line, maxLines) ==
    /\ LineCount(content) < maxLines
    /\ files' = [files EXCEPT ![QuestionFile] = @ \o line \o Newline]
    /\ ret' = NoCall
    /\ UNCHANGED <<nameVars, manifests, loaderVars, session>>

\* parse_standard_questions(file_path, q_type) on the file as it is on disk
ParseStandardQuestions(q_type) ==
    /\ ret' = [op |-> "parse_standard_questions", q_type |-> q_type,
               value |-> parse_standard_questions(files[QuestionFile], q_type)]
    /\ UNCHANGED <<nameVars, diskVars, loaderVars, session>>

ParseInit == NamesIdle /\ LoaderIdle /\ session = NoSessions /\ files = (QuestionFile :> <<>>) /\ ret = NoCall

ParseNext ==
    \/ \E line \in ParseLinePool : WriteLine(line, MaxFileLines)
    \/ ParseStandardQuestions(<<"s", "h", "o", "r", "t">>)

SpecParse == ParseInit /\ [][ParseNext]_vars

\* the non-blank blocks of a decoded file, stripped, in file order
RECURSIVE NonBlank(_)
NonBlank(blocks) ==
    IF blocks = <<>> THEN <<>>
    ELSE IF Strip(Head(blocks)) = <<>> THEN NonBlank(Tail(blocks))
    ELSE <<Strip(Head(blocks))>> \o NonBlank(Tail(blocks))

BlocksOf(text) == NonBlank(Tail(Split(text, QuestionMarker)))

\* the stripped non-empty lines of a block
RECURSIVE StrippedLines(_)
StrippedLines(rawLines) ==
    IF rawLines = <<>> THEN <<>>
    ELSE IF Strip(Head(rawLines)) = <<>> THEN StrippedLines(Tail(rawLines))
    ELSE <<Strip(Head(rawLines))>> \o StrippedLines(Tail(rawLines))

LinesOf(block) == StrippedLines(Split(block, Newline))

Parsed == ret.op = "parse_standard_questions"

InResult(question) == \E i \in 1..Len(ret.value) : ret.value[i] = question

\* C1: parsing never returns a Question whose Text, after assembly and trimming,
\* is shorter than 10 characters.
C1_TextAtLeastTen ==
    Parsed => \A i \in 1..Len(ret.value) : Len(Strip(ret.value[i].Text)) >= 10

\* C2: when the parse of one block of a file fails, every other valid block of
\* the file, before or after it, still yields its Question in the returned list.
C2_BlocksIndependent ==
    (Parsed /\ Utf8Decodable(content)) =>
        LET blocks == BlocksOf(Utf8Decode(content)) IN
        \A j \in 1..Len(blocks) :
            parse_question_block(blocks[j], ret.q_type).kind = "raise" =>
                \A k \in 1..Len(blocks) :
                    LET other == parse_question_block(blocks[k], ret.q_type) IN
                    (other.kind = "value" /\ Len(Strip(other.value.Text)) >= 10)
                        => InResult(other.value)

\* the lines of a block other than its Marks: lines
RECURSIVE WithoutMarks(_)
WithoutMarks(lines) ==
    IF lines = <<>> THEN <<>>
    ELSE IF StartsWith(Head(lines), <<"M", "a", "r", "k", "s", ":">>) THEN WithoutMarks(Tail(lines))
    ELSE <<Head(lines)>> \o WithoutMarks(Tail(lines))

\* a block with a valid Text whose Marks: lines all carry empty or non-numeric content
BadMarksBlock(block) ==
    LET lines == LinesOf(block) IN
    /\ \E i \in 1..Len(lines) : StartsWith(lines[i], <<"M", "a", "r", "k", "s", ":">>)
    /\ \A i \in 1..Len(lines) :
           StartsWith(lines[i], <<"M", "a", "r", "k", "s", ":">>) => ~IsIntLiteral(FieldValue(lines[i], <<"M", "a", "r", "k", "s", ":">>))
    /\ Len(Strip(ParseLines([q |-> NewQuestion(<<>>), cur |-> "None", raised |-> FALSE],
                            WithoutMarks(lines)).q.Text)) >= 10

\* C3: a block whose Marks: line carries non-numeric or empty content and whose
\* Text is valid yields a Question with Marks = 1; the block is not lost.
C3_BadMarksDefaultToOne ==
    (Parsed /\ Utf8Decodable(content)) =>
        LET blocks == BlocksOf(Utf8Decode(content)) IN
        \A j \in 1..Len(blocks) :
            BadMarksBlock(blocks[j]) =>
                InResult([ParseLines([q |-> NewQuestion(ret.q_type), cur |-> "None",
                                      raised |-> FALSE],
                                     WithoutMarks(LinesOf(blocks[j]))).q EXCEPT !.Marks = 1])

\* C9: when the utf-8 decoding of the file fails, the questions parsed from the
\* latin-1 decoding of the file are returned.
C9_FallbackDecoding ==
    LET fallback == ParseText(Latin1Decode(content), ret.q_type) IN
    (/\ Parsed
     /\ ~Utf8Decodable(content)
     /\ \A i \in 1..Len(fallback) : Len(Strip(fallback[i].Text)) >= 10)
        => ret.value = fallback

(***************************************************************************)
(* Choice questions: the author has written the head of a question and     *)
(* writes its options under it.                                            *)
(***************************************************************************)
ChoiceHead == QuestionMarker \o Newline \o <<"T", "e", "x", "t", ":", " ", "W", "h", "i", "c", "h", " ", "o", "n", "e", " ", "i", "s", " ", "f", "e", "d", "e", "r", "a", "l", "?">> \o Newline

OptionLinePool == {
    QuestionMarker,
    <<"T", "e", "x", "t", ":", " ", "W", "h", "i", "c", "h", " ", "o", "n", "e", " ", "i", "s", " ", "u", "n", "i", "t", "a", "r", "y", "?">>,
    <<"O", "p", "t", "i", "o", "n", "s", ":", " ", "(", "A", ")", " ", "F", "i", "r", "s", "t">>,
    <<"(", "B", ")", " ", "S", "e", "c", "o", "n", "d">>,
    <<"(", "C", ")", " ", "T", "h", "i", "r", "d">>,
    <<"(", "s", "e", "e", " ", "t", "h", "e", " ", "m", "a", "p", ")">>,
    <<"N", "o", "n", "e", " ", "o", "f", " ", "t", "h", "e", "s", "e">>,
    <<"A", "n", "s", "w", "e", "r", ":", " ", "(", "B", ")">>,
    <<"M", "a", "r", "k", "s", ":", " ", "2">> }

OptionsInit == NamesIdle /\ LoaderIdle /\ session = NoSessions /\ files = (QuestionFile :> ChoiceHead) /\ ret = NoCall

OptionsNext ==
    \/ \E line \in OptionLinePool : WriteLine(line, 2 + MaxOptionLines)
    \/ ParseStandardQuestions(<<"m", "c", "q">>)

SpecOptions == OptionsInit /\ [][OptionsNext]_vars

FieldPrefixes == {<<"T", "y", "p", "e", ":">>, <<"T", "e", "x", "t", ":">>, <<"A", "n", "s", "w", "e", "r", ":">>, <<"O", "p", "t", "i", "o", "n", "s", ":">>, <<"M", "a", "r", "k", "s", ":">>,
                  <<"C", "o", "n", "c", "e", "p", "t", ":">>, <<"D", "i", "f", "f", "i", "c", "u", "l", "t", "y", ":">>, <<"S", "o", "u", "r", "c", "e", "T", "e", "x", "t", ":">>, <<"E", "v", "e", "n", "t", "s", ":">>}
CursorPrefixes == {<<"T", "e", "x", "t", ":">>, <<"A", "n", "s", "w", "e", "r", ":">>, <<"O", "p", "t", "i", "o", "n", "s", ":">>, <<"S", "o", "u", "r", "c", "e", "T", "e", "x", "t", ":">>, <<"E", "v", "e", "n", "t", "s", ":">>}

HasPrefixIn(line, prefixes) == \E p \in prefixes : StartsWith(line, p)

\* line i of the block is read while the cursor is on Options: the last line
\* before it that moved the cursor is an Options: line
CursorOnOptions(lines, i) ==
    \E j \in 1..(i - 1) :
        /\ StartsWith(lines[j], <<"O", "p", "t", "i", "o", "n", "s", ":">>)
        /\ \A k \in (j + 1)..(i - 1) : ~HasPrefixIn(lines[k], CursorPrefixes)

\* the last Options: line of the block that carries a value (0: none)
LastOptionsLine(lines) ==
    LET hits == {i \in 1..Len(lines) :
                    /\ StartsWith(lines[i], <<"O", "p", "t", "i", "o", "n", "s", ":">>)
                    /\ FieldValue(lines[i], <<"O", "p", "t", "i", "o", "n", "s", ":">>) # <<>>} IN
    IF hits = {} THEN 0 ELSE CHOOSE i \in hits : \A j \in hits : i >= j

\* the continuation lines after line `from` read with the cursor on Options
\* that pass the test Entry, in file order
ContinuationEntries(lines, from, Entry(_)) ==
    LET Adds(i) == /\ i >= from
                   /\ ~HasPrefixIn(lines[i], FieldPrefixes)
                   /\ CursorOnOptions(lines, i)
                   /\ Entry(lines[i])
        kept == SelectSeq([i \in 1..Len(lines) |-> i], Adds) IN
    [n \in 1..Len(kept) |-> lines[kept[n]]]

\* the Options the claim describes for a block, Entry being the test a
\* continuation line must pass to add an entry
DescribedOptions(block, Entry(_)) ==
    LET lines == LinesOf(block)
        k == LastOptionsLine(lines) IN
    (IF k = 0 THEN <<>> ELSE parse_options(FieldValue(lines[k], <<"O", "p", "t", "i", "o", "n", "s", ":">>)))
        \o ContinuationEntries(lines, k + 1, Entry)

\* a line that begins with a single uppercase letter in parentheses
LetterMarked(line) ==
    /\ Len(line) >= 3
    /\ line[1] = "(" /\ IndexOf(line[2], UpperLetters) > 0 /\ line[3] = ")"

\* a line that begins with an opening parenthesis
ParenOpened(line) == line # <<>> /\ line[1] = "("

\* the blocks of the file that yield a Question, in file order
RECURSIVE Yielding(_, _)
Yielding(blocks, q_type) ==
    IF blocks = <<>> THEN <<>>
    ELSE IF parse_question_block(Head(blocks), q_type).kind = "value"
         THEN <<Head(blocks)>> \o Yielding(Tail(blocks), q_type)
         ELSE Yielding(Tail(blocks), q_type)

C5_NoDuplicateOptions ==
    Parsed =>
        \A i \in 1..Len(ret.value) :
            \A a, b \in 1..Len(ret.value[i].Options) :
                ret.value[i].Options[a] = ret.value[i].Options[b] => a = b

(***************************************************************************)
(* The manifest index: a process starts with some manifests and question   *)
(* files on disk, constructs the loader and queries it.                    *)
(***************************************************************************)
Absent == [k |-> "absent"]       \* no such file on disk

Config(manifest_file, enabled) ==
    JDict(<< <<<<"m", "a", "n", "i", "f", "e", "s", "t", "_", "f", "i", "l", "e">>, JStr(manifest_file)>>, <<<<"e", "n", "a", "b", "l", "e", "d">>, JBool(enabled)>> >>)

AssertionType == <<"a", "s", "s", "e", "r", "t", "i", "o", "n">>
VisualType == <<"v", "i", "s", "u", "a", "l">>
AssertionManifest == <<"a", "s", "s", "e", "r", "t", "i", "o", "n", "_", "m", "a", "n", "i", "f", "e", "s", "t", ".", "j", "s", "o", "n">>
VisualManifest == <<"v", "i", "s", "u", "a", "l", "_", "m", "a", "n", "i", "f", "e", "s", "t", ".", "j", "s", "o", "n">>
GlobalSubjects == JList(<<JStr(<<"H", "i", "s", "t", "o", "r", "y">>), JStr(<<"G", "e", "o", "g", "r", "a", "p", "h", "y">>)>>)

Master(assertionConfig, visualConfig) ==
    JDict(<< <<<<"q", "u", "e", "s", "t", "i", "o", "n", "_", "t", "y", "p", "e", "s">>, JDict(<< <<AssertionType, assertionConfig>>,
                                          <<VisualType, visualConfig>> >>)>>,
             <<<<"s", "u", "b", "j", "e", "c", "t", "s">>, GlobalSubjects>> >>)

\* master manifests that name no readable individual manifest
BrokenMasters == {
    Absent,
    Corrupt,
    JList(<<>>),                                              \* [] at top level
    JDict(<< <<<<"q", "u", "e", "s", "t", "i", "o", "n", "_", "t", "y", "p", "e", "s">>, JList(<<>>)>> >>),         \* question_types is a list
    Master(JStr(AssertionManifest), JStr(VisualManifest)) }   \* configs are strings

\* master manifests of the documented shape, and one whose second config is a string
LoadingMasters == {
    Master(Config(AssertionManifest, TRUE), JDict(<< <<<<"m", "a", "n", "i", "f", "e", "s", "t", "_", "f", "i", "l", "e">>, JStr(VisualManifest)>> >>)),
    Master(Config(AssertionManifest, FALSE), Config(VisualManifest, TRUE)),
    Master(JDict(<< <<<<"e", "n", "a", "b", "l", "e", "d">>, JBool(TRUE)>> >>), Config(VisualManifest, TRUE)),
    Master(Config(AssertionManifest, TRUE), JStr(VisualManifest)) }

Entry(subject, lesson, file_path) ==
    JDict(<< <<<<"s", "u", "b", "j", "e", "c", "t">>, JStr(subject)>>, <<<<"l", "e", "s", "s", "o", "n">>, JStr(lesson)>>,
             <<<<"f", "i", "l", "e", "_", "p", "a", "t", "h">>, JStr(file_path)>> >>)

EntryPool == {
    Entry(<<"H", "i", "s", "t", "o", "r", "y">>, <<"N", "a", "t", "i", "o", "n", "a", "l", "i", "s", "m", " ", "i", "n", " ", "I", "n", "d", "i", "a">>, <<"d", "a", "t", "a", "_", "q", "p", "/", "h", "i", "s", "t", "o", "r", "y", "/", "n", "a", "t", ".", "t", "x", "t">>),
    Entry(<<"h", "i", "s", "t", "o", "r", "y">>, <<"N", "a", "t", "i", "o", "n", "a", "l", "i", "s", "m", "_", "i", "n", "_", "I", "n", "d", "i", "a">>, <<"d", "a", "t", "a", "/", "h", "i", "s", "t", "o", "r", "y", "/", "n", "a", "t", "2", ".", "t", "x", "t">>),
    Entry(<<"G", "e", "o", "g", "r", "a", "p", "h", "y">>, <<"N", "a", "t", "i", "o", "n", "a", "l", "i", "s", "m", " ", "i", "n", " ", "I", "n", "d", "i", "a">>, <<"d", "a", "t", "a", "_", "q", "p", "/", "g", "e", "o", "/", "d", "a", "t", "a", "_", "q", "p", "/", "r", "e", "s", ".", "t", "x", "t">>),
    JDict(<< <<<<"s", "u", "b", "j", "e", "c", "t">>, JStr(<<"H", "i", "s", "t", "o", "r", "y">>)>>, <<<<"l", "e", "s", "s", "o", "n">>, JStr(<<"P", "r", "i", "n", "t", " ", "C", "u", "l", "t", "u", "r", "e">>)>> >>),
    JStr(<<"o", "o", "p", "s">>) }                                          \* an entry that is no object

\* the key of the i-th entry of a generated manifest
EntryKey(i) == <<"e", Digits[i + 1]>>

ManifestOf(entries) == JDict([i \in 1..Len(entries) |-> <<EntryKey(i), entries[i]>>])

AssertionManifests ==
    {Absent, Corrupt, JList(<<>>), JNum(5)}
        \cup {ManifestOf(entries) :
                 entries \in UNION {[1..n -> EntryPool] : n \in 0..MaxEntries}}

VisualManifests ==
    {Absent, ManifestOf(<<Entry(<<"H", "i", "s", "t", "o", "r", "y">>, <<"N", "a", "t", "i", "o", "n", "a", "l", "i", "s", "m", " ", "i", "n", " ", "I", "n", "d", "i", "a">>, <<"d", "a", "t", "a", "_", "q", "p", "/", "h", "i", "s", "t", "o", "r", "y", "/", "n", "a", "t", ".", "t", "x", "t">>)>>)}

SampleFile ==
    QuestionMarker \o Newline \o <<"T", "e", "x", "t", ":", " ", "W", "h", "a", "t", " ", "i", "s", " ", "f", "e", "d", "e", "r", "a", "l", "i", "s", "m", "?">> \o Newline
        \o <<"A", "n", "s", "w", "e", "r", ":", " ", "A", " ", "s", "y", "s", "t", "e", "m", " ", "o", "f", " ", "g", "o", "v", "e", "r", "n", "m", "e", "n", "t">> \o Newline \o <<"M", "a", "r", "k", "s", ":", " ", "2">> \o Newline
        \o QuestionMarker \o Newline \o <<"T", "e", "x", "t", ":", " ", "h", "i">> \o Newline

Latin1File == QuestionMarker \o Newline \o <<"T", "e", "x", "t", ":", " ", "W", "h", "i", "c", "h", " ", "c", "a", "f">> \o <<HighByte>> \o Newline

QuestionFiles == {NoFiles, (QuestionFile :> SampleFile), (QuestionFile :> Latin1File)}

\* the JSON files on disk, given the content of each
Disk(master, assertion, visual) ==
    LET at == (MasterPath :> master)
                  @@ (PathJoin(manifests_path, AssertionManifest) :> assertion)
                  @@ (PathJoin(manifests_path, VisualManifest) :> visual) IN
    [p \in {q \in DOMAIN at : at[q] # Absent} |-> at[p]]

Init ==
    /\ NamesIdle
    /\ files \in QuestionFiles
    /\ \/ \E m \in BrokenMasters : manifests = Disk(m, Absent, Absent)
       \/ \E m \in LoadingMasters, a \in AssertionManifests, v \in VisualManifests :
              manifests = Disk(m, a, v)
    /\ master_manifest = EmptyDict
    /\ individual_manifests = NoManifests
    /\ phase = "start"
    /\ session = NoSessions
    /\ ret = NoCall

\* ManifestLoader(): __init__ runs both loads; an exception leaves no instance
Construct ==
    /\ phase = "start"
    /\ LET master == load_master_manifest(manifests)
           loaded == load_all_individual_manifests(manifests, master) IN
       /\ master_manifest' = master
       /\ IF loaded.kind = "raise"
          THEN /\ individual_manifests' = NoManifests
               /\ phase' = "failed"
               /\ ret' = [op |-> "__init__", out |-> Raised]
          ELSE /\ individual_manifests' = loaded.value
               /\ phase' = "ready"
               /\ ret' = [op |-> "__init__", out |-> Returned(JNull)]
    /\ UNCHANGED <<nameVars, diskVars, session>>

QueryTypes == {AssertionType, VisualType}
QuerySubjects == {<<"h", "i", "s", "t", "o", "r", "y">>, <<"G", "e", "o", "g", "r", "a", "p", "h", "y">>}
QueryLessons == {<<"N", "a", "t", "i", "o", "n", "a", "l", "i", "s", "m", "_", "i", "n", "_", "I", "n", "d", "i", "a">>, <<"P", "r", "i", "n", "t", " ", "C", "u", "l", "t", "u", "r", "e">>}

\* a call that has been made and has not returned yet
Pending == [kind |-> "pending"]

Calls ==
    {[op |-> "get_file_path", q_type |-> q, subject |-> s, lesson |-> l, out |-> Pending] :
        q \in QueryTypes, s \in QuerySubjects, l \in QueryLessons}
    \cup {[op |-> "get_available_subjects", q_type |-> q, out |-> Pending] :
        q \in {JStr(t) : t \in QueryTypes} \cup {JNull}}
    \cup {[op |-> "get_available_lessons", q_type |-> q, subject |-> s, out |-> Pending] :
        q \in QueryTypes, s \in QuerySubjects}
    \cup {[op |-> "get_available_question_types_for_lesson", subject |-> s, lesson |-> l,
           out |-> Pending] : s \in QuerySubjects, l \in QueryLessons}
    \cup {[op |-> "load_questions_from_manifest", q_type |-> q, subject |-> s, lesson |-> l,
           out |-> Pending] : q \in QueryTypes, s \in QuerySubjects, l \in QueryLessons}

\* the caller (a route of app.py) calls the loader
Call(call) ==
    /\ phase = "ready"
    /\ ret.out # Pending
    /\ ret' = call
    /\ UNCHANGED <<nameVars, diskVars, loaderVars, session>>

Called(op) == ret.op = op /\ ret.out = Pending

GetFilePath ==
    /\ Called("get_file_path")
    /\ ret' = [ret EXCEPT !.out = get_file_path(individual_manifests, ret.q_type,
                                                ret.subject, ret.lesson)]
    /\ UNCHANGED <<nameVars, diskVars, loaderVars, session>>

GetAvailableSubjects ==
    /\ Called("get_available_subjects")
    /\ ret' = [ret EXCEPT !.out = get_available_subjects(master_manifest,
                                                         individual_manifests, ret.q_type)]
    /\ UNCHANGED <<nameVars, diskVars, loaderVars, session>>

GetAvailableLessons ==
    /\ Called("get_available_lessons")
    /\ ret' = [ret EXCEPT !.out = get_available_lessons(individual_manifests, ret.q_type,
                                                        ret.subject)]
    /\ UNCHANGED <<nameVars, diskVars, loaderVars, session>>

GetAvailableQuestionTypesForLesson ==
    /\ Called("get_available_question_types_for_lesson")
    /\ ret' = [ret EXCEPT !.out = get_available_question_types_for_lesson(
                                      master_manifest, individual_manifests,
                                      ret.subject, ret.lesson)]
    /\ UNCHANGED <<nameVars, diskVars, loaderVars, session>>

LoadQuestionsFromManifest ==
    /\ Called("load_questions_from_manifest")
    /\ ret' = [ret EXCEPT !.out = load_questions_from_manifest(
                                      individual_manifests, files, ret.q_type,
                                      ret.subject, ret.lesson)]
    /\ UNCHANGED <<nameVars, diskVars, loaderVars, session>>

Next ==
    \/ Construct
    \/ \E call \in Calls : Call(call)
    \/ GetFilePath
    \/ GetAvailableSubjects
    \/ GetAvailableLessons
    \/ GetAvailableQuestionTypesForLesson
    \/ LoadQuestionsFromManifest

Spec == Init /\ [][Next]_vars

LoaderOps == {"__init__", "get_file_path", "get_available_subjects", "get_available_lessons",
              "get_available_question_types_for_lesson", "load_questions_from_manifest"}

\* the path with its leading legacy prefix rewritten and the remainder unchanged
LeadingRewritten(path) ==
    IF StartsWith(path, LegacyPrefix)
    THEN DataPrefix \o SubSeq(path, Len(LegacyPrefix) + 1, Len(path))
    ELSE path

\* C7: get_file_path returns, for a found entry, its file_path with only a leading
\* data_qp/ rewritten to data/ and the remainder unchanged; None when no entry matches.
C7_OnlyLeadingPrefixRewritten ==
    (ret.op = "get_file_path" /\ ret.out.kind = "value") =>
        IF ret.q_type \notin DOMAIN individual_manifests THEN ret.out.value = JNull
        ELSE LET found == find_matching_entry(individual_manifests[ret.q_type],
                                              ret.subject, ret.lesson) IN
             IF found.value = JNull THEN ret.out.value = JNull
             ELSE LET file_path == DictGet(found.value, <<"f", "i", "l", "e", "_", "p", "a", "t", "h">>, JNull) IN
                  file_path.k = "str" =>
                      ret.out.value = JStr(LeadingRewritten(file_path.v))

\* the master manifest on disk has the documented shape: an object whose
\* question_types is an object of config objects
DocumentedMaster ==
    /\ MasterPath \in DOMAIN manifests
    /\ manifests[MasterPath].k = "dict"
    /\ LET question_types == DictGet(manifests[MasterPath], <<"q", "u", "e", "s", "t", "i", "o", "n", "_", "t", "y", "p", "e", "s">>, EmptyDict) IN
       /\ question_types.k = "dict"
       /\ \A i \in 1..Len(question_types.items) : question_types.items[i][2].k = "dict"

\* the enabled question types whose individual manifest file is absent on disk
AbsentManifestTypes ==
    IF ~DocumentedMaster THEN {}
    ELSE LET items == DictGet(manifests[MasterPath], <<"q", "u", "e", "s", "t", "i", "o", "n", "_", "t", "y", "p", "e", "s">>, EmptyDict).items IN
         {items[i][1] : i \in {j \in 1..Len(items) :
             /\ Truthy(DictGet(items[j][2], <<"e", "n", "a", "b", "l", "e", "d">>, JBool(TRUE)))
             /\ DictGet(items[j][2], <<"m", "a", "n", "i", "f", "e", "s", "t", "_", "f", "i", "l", "e">>, JNull).k = "str"
             /\ PathJoin(manifests_path, DictGet(items[j][2], <<"m", "a", "n", "i", "f", "e", "s", "t", "_", "f", "i", "l", "e">>, JNull).v)
                    \notin DOMAIN manifests}}

\* C8: when the individual manifest file of an enabled question type is absent on
\* disk, loading completes without raising, get_available_subjects(type) returns
\* the empty list and get_file_path(type, s, l) returns None for every s and l.
C8_AbsentManifest ==
    \A t \in AbsentManifestTypes :
        /\ phase # "failed"
        /\ (ret.op = "get_available_subjects" /\ ret.q_type = JStr(t) /\ ret.out # Pending)
               => ret.out = Returned(JList(<<>>))
        /\ (ret.op = "get_file_path" /\ ret.q_type = t /\ ret.out # Pending)
               => ret.out = Returned(JNull)

\* the subjects of a type whose manifest file is absent were asked for, while the
\* master manifest lists global subjects
C8_Witness ==
    \E t \in AbsentManifestTypes :
        /\ ret.op = "get_available_subjects"
        /\ ret.q_type = JStr(t)
        /\ ret.out = Returned(JList(<<>>))
        /\ Truthy(DictGet(master_manifest, <<"s", "u", "b", "j", "e", "c", "t", "s">>, JList(<<>>)))

\* C10: whatever the manifest files and question files hold, constructing the
\* loader and every query on it completes; no exception reaches the caller.
C10_NoExceptionEscapes ==
    /\ phase # "failed"
    /\ ret.op \in LoaderOps => ret.out.kind # "raise"

(***************************************************************************)
(* Entry lookup: the loader is constructed and find_matching_entry is      *)
(* called on the manifest of a loaded question type.                       *)
(***************************************************************************)
\* find_matching_entry(self.individual_manifests[q_type], subject, lesson) is called
CallFindMatchingEntry(q_type, subject, lesson) ==
    /\ phase = "ready"
    /\ ret.out # Pending
    /\ q_type \in DOMAIN individual_manifests
    /\ ret' = [op |-> "find_matching_entry", q_type |-> q_type, subject |-> subject,
               lesson |-> lesson, out |-> Pending]
    /\ UNCHANGED <<nameVars, diskVars, loaderVars, session>>

FindMatchingEntry ==
    /\ Called("find_matching_entry")
    /\ ret' = [ret EXCEPT !.out = find_matching_entry(individual_manifests[ret.q_type],
                                                      ret.subject, ret.lesson)]
    /\ UNCHANGED <<nameVars, diskVars, loaderVars, session>>

FindNext ==
    \/ Construct
    \/ \E q \in QueryTypes, s \in QuerySubjects, l \in QueryLessons :
           CallFindMatchingEntry(q, s, l)
    \/ FindMatchingEntry

SpecFind == Init /\ [][FindNext]_vars

\* the entry carries a str under `field` that matches the name under names_match
FieldMatches(entry, field, name) ==
    /\ entry.k = "dict"
    /\ DictGet(entry, field, JStr(<<>>)).k = "str"
    /\ names_match(DictGet(entry, field, JStr(<<>>)).v, name)

\* the positions of the entries of the scanned manifest that match the query on
\* both subject and lesson
BothMatch ==
    LET items == individual_manifests[ret.q_type].items IN
    {i \in 1..Len(items) : /\ FieldMatches(items[i][2], <<"s", "u", "b", "j", "e", "c", "t">>, ret.subject)
                           /\ FieldMatches(items[i][2], <<"l", "e", "s", "s", "o", "n">>, ret.lesson)}

\* C11: find_matching_entry returns the first entry, in manifest order, whose
\* subject and lesson both match the query under names_match, and None when no
\* entry matches both; an entry matching only one of the two is never returned.
C11_FirstMatchingEntry ==
    (ret.op = "find_matching_entry" /\ ret.out.kind = "value") =>
        ret.out.value = IF BothMatch = {} THEN JNull
                        ELSE individual_manifests[ret.q_type].items[Min(BothMatch)][2]

\* the second entry was returned after a first entry that matches the query on
\* exactly one of subject and lesson
C11_Witness ==
    /\ ret.op = "find_matching_entry"
    /\ ret.out.kind = "value"
    /\ BothMatch # {}
    /\ Min(BothMatch) = 2
    /\ LET first == individual_manifests[ret.q_type].items[1][2] IN
       FieldMatches(first, <<"s", "u", "b", "j", "e", "c", "t">>, ret.subject)
           # FieldMatches(first, <<"l", "e", "s", "s", "o", "n">>, ret.lesson)

(***************************************************************************)
(* Subjects of a question type (checked on the manifest index, Spec).      *)
(***************************************************************************)
\* the distinct subjects appearing in the loaded manifest entries of a type;
\* none when the type has no loaded entries
LoadedSubjects(q_type) ==
    IF q_type \notin DOMAIN individual_manifests THEN {}
    ELSE {DictGet(entry, <<"s", "u", "b", "j", "e", "c", "t">>, JNull).v :
             entry \in {e \in Values(individual_manifests[q_type]) :
                           Truthy(DictGet(e, <<"s", "u", "b", "j", "e", "c", "t">>, JNull))}}

\* the members of a returned list
Members(list) == {list.items[i] : i \in 1..Len(list.items)}

\* C12: when a question type is given, get_available_subjects returns exactly the
\* distinct subjects of that type's loaded manifest entries (none when the type
\* has no loaded entries); the master manifest's global list is returned only
\* when no type is given.
C12_SubjectsOfGivenType ==
    (ret.op = "get_available_subjects" /\ ret.out.kind = "value") =>
        IF ret.q_type = JNull
        THEN ret.out.value = DictGet(master_manifest, <<"s", "u", "b", "j", "e", "c", "t", "s">>, JList(<<>>))
        ELSE /\ ret.out.value.k = "list"
             /\ Members(ret.out.value) = {JStr(subject) : subject \in LoadedSubjects(ret.q_type.v)}

(***************************************************************************)
(* Multi-line fields: the author writes a file whose blocks carry          *)
(* continuation lines, single-value fields and events.                     *)
(***************************************************************************)
FieldLinePool == {
    QuestionMarker,
    <<"T", "e", "x", "t", ":", " ", "A", "s", "s", "e", "r", "t", "i", "o", "n", ":", " ", "R", "i", "v", "e", "r", "s", " ", "f", "l", "o", "w", " ", "d", "o", "w", "n", "h", "i", "l", "l", ".">>,
    <<"R", "e", "a", "s", "o", "n", ":", " ", "G", "r", "a", "v", "i", "t", "y", " ", "p", "u", "l", "l", "s", " ", "w", "a", "t", "e", "r", ".">>,
    <<"D", "i", "f", "f", "i", "c", "u", "l", "t", "y", ":", " ", "H", "a", "r", "d">>,
    <<"c", "o", "n", "t", "i", "n", "u", "e", "s", " ", "o", "n", " ", "t", "h", "e", " ", "n", "e", "x", "t", " ", "l", "i", "n", "e">>,
    <<"E", "v", "e", "n", "t", "s", ":", " ", "S", "a", "l", "t", " ", "M", "a", "r", "c", "h">>,
    <<"Q", "u", "i", "t", " ", "I", "n", "d", "i", "a", " ", "M", "o", "v", "e", "m", "e", "n", "t">>,
    <<"M", "a", "r", "k", "s", ":", " ", "0">>,
    <<"M", "a", "r", "k", "s", ":", " ", "-", "2">> }

FieldsInit == NamesIdle /\ LoaderIdle /\ session = NoSessions /\ files = (QuestionFile :> <<>>) /\ ret = NoCall

FieldsNext ==
    \/ \E line \in FieldLinePool : WriteLine(line, MaxFieldLines)
    \/ ParseStandardQuestions(<<"a", "s", "s", "e", "r", "t", "i", "o", "n">>)

SpecFields == FieldsInit /\ [][FieldsNext]_vars

\* s contains sub
Contains(s, sub) == Find(s, sub) > 0

\* the text is a paragraph holding `first`, a blank line, then a paragraph holding `second`
TwoParagraphs(text, first, second) ==
    \E i \in 1..(Len(text) - 1) :
        /\ text[i] = "\n" /\ text[i + 1] = "\n"
        /\ Contains(SubSeq(text, 1, i - 1), first)
        /\ Contains(SubSeq(text, i + 2, Len(text)), second)

\* C14: when the assembled Text of a block contains both an Assertion: and a
\* Reason: sub-marker, the Text of the returned Question is the assertion
\* paragraph with its label, a blank line, then the reason paragraph with its label.
C14_AssertionReasonParagraphs ==
    Parsed =>
        \A i \in 1..Len(ret.value) :
            (Contains(ret.value[i].Text, <<"A", "s", "s", "e", "r", "t", "i", "o", "n", ":">>) /\ Contains(ret.value[i].Text, <<"R", "e", "a", "s", "o", "n", ":">>))
                => TwoParagraphs(ret.value[i].Text, <<"A", "s", "s", "e", "r", "t", "i", "o", "n", ":">>, <<"R", "e", "a", "s", "o", "n", ":">>)

SingleValuePrefixes == {<<"T", "y", "p", "e", ":">>, <<"M", "a", "r", "k", "s", ":">>, <<"C", "o", "n", "c", "e", "p", "t", ":">>, <<"D", "i", "f", "f", "i", "c", "u", "l", "t", "y", ":">>}

\* line i has no recognized prefix and the last line before it that has one is
\* a single-value field line: it is read with the cursor reset to NONE
AfterSingleValue(lines, i) ==
    /\ ~HasPrefixIn(lines[i], FieldPrefixes)
    /\ \E j \in 1..(i - 1) :
           /\ HasPrefixIn(lines[j], SingleValuePrefixes)
           /\ \A k \in (j + 1)..(i - 1) : ~HasPrefixIn(lines[k], FieldPrefixes)

\* the lines of a block without those read with the cursor reset to NONE
RECURSIVE WithoutReset(_, _)
WithoutReset(lines, i) ==
    IF i > Len(lines) THEN <<>>
    ELSE IF AfterSingleValue(lines, i) THEN WithoutReset(lines, i + 1)
    ELSE <<lines[i]>> \o WithoutReset(lines, i + 1)

\* C15: a single-value field line (Type:, Marks:, Concept:, Difficulty:) resets
\* the cursor to NONE, so a following line with no recognized prefix is appended
\* to no field: every returned Question is the one its block yields without
\* those lines.
C15_SingleValueResetsCursor ==
    Parsed =>
        LET blocks == Yielding(BlocksOf(Utf8Decode(content)), ret.q_type) IN
        /\ Len(ret.value) = Len(blocks)
        /\ \A i \in 1..Len(blocks) :
               ret.value[i] = ParseLines([q |-> NewQuestion(ret.q_type), cur |-> "None",
                                          raised |-> FALSE],
                                         WithoutReset(LinesOf(blocks[i]), 1)).q

\* line i of the block is read while the cursor is on Events: the last line
\* before it that moved the cursor is an Events: line
CursorOnEvents(lines, i) ==
    \E j \in 1..(i - 1) :
        /\ StartsWith(lines[j], <<"E", "v", "e", "n", "t", "s", ":">>)
        /\ \A k \in (j + 1)..(i - 1) : ~HasPrefixIn(lines[k], CursorPrefixes)

\* the last Events: line of the block that carries a value (0: none)
LastEventsLine(lines) ==
    LET hits == {i \in 1..Len(lines) :
                    /\ StartsWith(lines[i], <<"E", "v", "e", "n", "t", "s", ":">>)
                    /\ FieldValue(lines[i], <<"E", "v", "e", "n", "t", "s", ":">>) # <<>>} IN
    IF hits = {} THEN 0 ELSE Max(hits)

\* the event lines of a block: the value of its last Events: line, then every
\* continuation line read after it with the cursor on Events, in file order
EventLines(lines, from) ==
    (IF from = 0 THEN <<>> ELSE <<FieldValue(lines[from], <<"E", "v", "e", "n", "t", "s", ":">>)>>)
        \o SelectSeq([i \in 1..Len(lines) |->
                         IF i > from /\ ~HasPrefixIn(lines[i], FieldPrefixes)
                                     /\ CursorOnEvents(lines, i)
                         THEN lines[i] ELSE <<>>],
                     LAMBDA line : line # <<>>)

\* C16: while the cursor is on Events each continuation line is added to Events
\* as one entry equal to the whole line, so Events is the ordered sequence of
\* the event lines of the block.
C16_EventsAreLines ==
    Parsed =>
        LET blocks == Yielding(BlocksOf(Utf8Decode(content)), ret.q_type) IN
        /\ Len(ret.value) = Len(blocks)
        /\ \A i \in 1..Len(blocks) :
               ret.value[i].Events = EventLines(LinesOf(blocks[i]),
                                                LastEventsLine(LinesOf(blocks[i])))

\* C17: every Question returned by parsing has an integer Marks of at least 1,
\* whatever the block's Marks: line holds.
C17_MarksAtLeastOne ==
    Parsed =>
        \A i \in 1..Len(ret.value) :
            ret.value[i].Marks \in Int /\ ret.value[i].Marks >= 1

(***************************************************************************)
(* Normal forms fed back: a caller writes a name piece by piece, with any  *)
(* number of separators between the words, normalizes it, and normalizes   *)
(* the result once more (a stored key that is looked up again).            *)
(***************************************************************************)
MaxPieces == 7

NamePieces == {<<"a">>, <<"a", "n", "d">>, <<"_">>, <<" ">>}

RECURSIVE PieceCount(_)
PieceCount(name) ==
    IF name = <<>> THEN 0
    ELSE IF StartsWith(name, <<"a", "n", "d">>) THEN 1 + PieceCount(SubSeq(name, 4, Len(name)))
    ELSE 1 + PieceCount(Tail(name))

RenormInit ==
    /\ name1 = <<>> /\ name2 = <<>>
    /\ style1 = "lower" /\ style2 = "lower"
    /\ ret = NoCall
    /\ LoaderIdle /\ session = NoSessions /\ files = NoFiles

\* the caller writes one more piece of the name
AppendPiece(p) ==
    /\ PieceCount(name1) < MaxPieces
    /\ name1' = name1 \o p
    /\ ret' = NoCall
    /\ UNCHANGED <<name2, style1, style2, diskVars, loaderVars, session>>

\* normalize_name(name1)
NormalizeName ==
    /\ name1 # <<>>
    /\ ret' = [op |-> "normalize_name", pass |-> 1,
               arg |-> name1, out |-> normalize_name(name1)]
    /\ UNCHANGED <<nameVars, diskVars, loaderVars, session>>

\* normalize_name applied to the result of the previous call
NormalizeAgain ==
    /\ ret.op = "normalize_name"
    /\ ret.pass = 1
    /\ ret' = [op |-> "normalize_name", pass |-> 2,
               arg |-> ret.out, out |-> normalize_name(ret.out)]
    /\ UNCHANGED <<nameVars, diskVars, loaderVars, session>>

RenormNext ==
    \/ \E p \in NamePieces : AppendPiece(p)
    \/ NormalizeName
    \/ NormalizeAgain

SpecRenorm == RenormInit /\ [][RenormNext]_vars

\* C18: normalize_name is idempotent: normalizing a name that is already the
\* result of normalize_name returns it unchanged, also for names with runs of
\* three or more separators or with a connector word repeated next to itself.
C18_NormalizeIdempotent ==
    (ret.op = "normalize_name" /\ ret.pass = 2) => ret.out = ret.arg

(***************************************************************************)
(* Practice sessions of app.py: a client starts practice sessions, asks    *)
(* for the next question and submits answers.                              *)
(***************************************************************************)
PracticeFile ==
    QuestionMarker \o Newline \o <<"T", "e", "x", "t", ":", " ", "C", "a", "p", "i", "t", "a", "l", " ", "o", "f", " ", "I", "n", "d", "i", "a", "?">> \o Newline
        \o <<"A", "n", "s", "w", "e", "r", ":", " ", "D", "e", "l", "h", "i">> \o Newline
        \o QuestionMarker \o Newline \o <<"T", "e", "x", "t", ":", " ", "W", "h", "o", " ", "l", "e", "d", " ", "t", "h", "e", " ", "S", "a", "l", "t", " ", "M", "a", "r", "c", "h", "?">> \o Newline
        \o <<"A", "n", "s", "w", "e", "r", ":", " ", "G", "a", "n", "d", "h", "i">> \o Newline

PracticeManifest ==
    ManifestOf(<<Entry(<<"H", "i", "s", "t", "o", "r", "y">>, <<"N", "a", "t", "i", "o", "n", "a", "l", "i", "s", "m", " ", "i", "n", " ", "I", "n", "d", "i", "a">>, <<"d", "a", "t", "a", "_", "q", "p", "/", "h", "i", "s", "t", "o", "r", "y", "/", "n", "a", "t", ".", "t", "x", "t">>)>>)

SessionIds == {"practice_1", "practice_2"}
PracticeLessons == {<<"N", "a", "t", "i", "o", "n", "a", "l", "i", "s", "m", "_", "i", "n", "_", "I", "n", "d", "i", "a">>, <<"P", "r", "i", "n", "t", " ", "C", "u", "l", "t", "u", "r", "e">>}
PracticeCounts == {1, 10}
UserAnswers == {JStr(<<" ", "d", "e", "l", "h", "i", " ">>), JStr(<<"G", "a", "n", "d", "h", "i">>), JStr(<<"N", "e", "h", "r", "u">>), JNull}

PracticeInit ==
    /\ NamesIdle
    /\ files \in {NoFiles, (QuestionFile :> PracticeFile)}
    /\ manifests = Disk(Master(Config(AssertionManifest, TRUE), Config(VisualManifest, TRUE)),
                        PracticeManifest, Absent)
    /\ master_manifest = EmptyDict
    /\ individual_manifests = NoManifests
    /\ phase = "start"
    /\ session = NoSessions
    /\ ret = NoCall

\* ManifestLoader.load_questions_by_type_and_lesson, which app.py calls and
\* manifest_loader.py does not define: the specification's loadQuestions
load_questions_by_type_and_lesson(individual, disk, question_type, subject, lesson) ==
    load_questions_from_manifest(individual, disk, question_type, subject, lesson)

\* random.sample(questions, count): count distinct positions, in any order
Samples(questions, count) ==
    {[i \in 1..count |-> questions[pick[i]]] :
        pick \in {f \in [1..count -> 1..Len(questions)] :
                     \A i, j \in 1..count : i # j => f[i] # f[j]}}

\* lines 248-250 on the outcome of the load; line 253 on an exception
PracticeQuestions(loaded, count) ==
    IF loaded.kind = "raise" THEN {<<>>}
    ELSE IF Len(loaded.value) > count THEN Samples(loaded.value, count)
    ELSE {loaded.value}

\* the lists load_practice_questions can return; the empty list is also what
\* line 253 returns when the loader object has no such method
load_practice_questions(individual, disk, subject, lesson, question_type, count) ==
    {<<>>} \cup PracticeQuestions(
                   load_questions_by_type_and_lesson(individual, disk, question_type,
                                                     subject, lesson), count)

NewSession(questions) ==
    [questions |-> questions, current_index |-> 0, score |-> 0, answers |-> <<>>]

FirstQuestion(questions) == IF questions # <<>> THEN questions[1] ELSE None

NotFound == [kind |-> "error", status |-> 404]

\* POST /api/start-practice; the session id is built from the clock, so it is new
StartPractice(session_id, lesson, count) ==
    /\ phase = "ready"
    /\ session_id \notin DOMAIN session
    /\ \E questions \in load_practice_questions(individual_manifests, files, <<"h", "i", "s", "t", "o", "r", "y">>,
                                                lesson, AssertionType, count) :
          /\ session' = [id \in DOMAIN session \cup {session_id} |->
                            IF id = session_id THEN NewSession(questions) ELSE session[id]]
          /\ ret' = [op |-> "start_practice", session_id |-> session_id, answer |-> JNull,
                     out |-> Returned([success |-> TRUE, session_id |-> session_id,
                                       total_questions |-> Len(questions),
                                       first_question |-> FirstQuestion(questions)])]
    /\ UNCHANGED <<nameVars, diskVars, loaderVars>>

\* lines 128-140 on a session that exists
NextQuestion(practice_session) ==
    IF practice_session.current_index >= Len(practice_session.questions)
    THEN Returned([finished |-> TRUE, score |-> practice_session.score])
    ELSE Returned([question |-> practice_session.questions[practice_session.current_index + 1],
                   index |-> practice_session.current_index + 1,
                   total |-> Len(practice_session.questions)])

\* GET /api/practice/<session_id>/next
GetNextQuestion(session_id) ==
    /\ phase = "ready"
    /\ ret' = [op |-> "get_next_question", session_id |-> session_id, answer |-> JNull,
               out |-> IF session_id \notin DOMAIN session THEN NotFound
                       ELSE NextQuestion(session[session_id])]
    /\ UNCHANGED <<nameVars, diskVars, loaderVars, session>>

\* a plausible slip: the answers compared as they were typed
is_correct_exact(user_answer, correct_answer) == user_answer = correct_answer

\* user_answer.lower().strip() == correct_answer.lower().strip()
is_correct(user_answer, correct_answer) ==
    Strip(Lower(user_answer)) = Strip(Lower(correct_answer))

\* questions[current_index] raises IndexError past the last question, and
\* None.lower() raises AttributeError: both before anything is written
CanAnswer(practice_session, user_answer) ==
    /\ practice_session.current_index < Len(practice_session.questions)
    /\ user_answer.k = "str"

CurrentQuestion(practice_session) ==
    practice_session.questions[practice_session.current_index + 1]

Score(practice_session, correct) ==
    IF correct THEN practice_session.score + 1 ELSE practice_session.score

\* lines 157-170: the session after the answer is recorded
Answered(practice_session, question, user_answer, correct) ==
    [practice_session EXCEPT
        !.score = Score(practice_session, correct),
        !.answers = Append(practice_session.answers,
                           [question |-> question, user_answer |-> user_answer,
                            correct_answer |-> question.Answer, is_correct |-> correct]),
        !.current_index = practice_session.current_index + 1]

\* the JSON of lines 171-175
AnswerReply(question, correct) ==
    Returned([correct |-> correct, correct_answer |-> question.Answer, explanation |-> <<>>])

\* POST /api/practice/<session_id>/answer
SubmitAnswer(session_id, user_answer) ==
    /\ phase = "ready"
    /\ IF session_id \notin DOMAIN session
       THEN /\ ret' = [op |-> "submit_answer", session_id |-> session_id,
                       answer |-> user_answer, out |-> NotFound]
            /\ UNCHANGED session
       ELSE IF ~CanAnswer(session[session_id], user_answer)
       THEN /\ ret' = [op |-> "submit_answer", session_id |-> session_id,
                       answer |-> user_answer, out |-> Raised]
            /\ UNCHANGED session
       ELSE /\ session' = [session EXCEPT ![session_id] =
                              Answered(@, CurrentQuestion(@), user_answer.v,
                                       is_correct(user_answer.v, CurrentQuestion(@).Answer))]
            /\ ret' = [op |-> "submit_answer", session_id |-> session_id,
                       answer |-> user_answer,
                       out |-> AnswerReply(CurrentQuestion(session[session_id]),
                                           is_correct(user_answer.v,
                                                      CurrentQuestion(session[session_id]).Answer))]
    /\ UNCHANGED <<nameVars, diskVars, loaderVars>>

PracticeNext ==
    \/ Construct
    \/ \E id \in SessionIds, lesson \in PracticeLessons, count \in PracticeCounts :
           StartPractice(id, lesson, count)
    \/ \E id \in SessionIds : GetNextQuestion(id)
    \/ \E id \in SessionIds, answer \in UserAnswers : SubmitAnswer(id, answer)

SpecPractice == PracticeInit /\ [][PracticeNext]_vars

\* 0 <= score <= current_index == len(answers) <= len(questions)
SessionInvariant ==
    \A id \in DOMAIN session :
        /\ 0 <= session[id].score
        /\ session[id].score <= session[id].current_index
        /\ session[id].current_index = Len(session[id].answers)
        /\ Len(session[id].answers) <= Len(session[id].questions)

\* the two answers are equal after lowercasing and trimming both
SameAfterLowerTrim(a, b) == Strip(Lower(a)) = Strip(Lower(b))

Finished(practice_session) ==
    practice_session.current_index = Len(practice_session.questions)

\* what a successful submit_answer changes in its session
SubmitEffect(before, after, user_answer) ==
    /\ after.current_index = before.current_index + 1
    /\ Len(after.answers) = Len(before.answers) + 1
    /\ after.questions = before.questions
    /\ after.score = before.score
                       + (IF SameAfterLowerTrim(user_answer, CurrentQuestion(before).Answer)
                          THEN 1 ELSE 0)

SessionStep ==
    /\ ret'.op = "get_next_question" => session' = session
    /\ (ret'.op = "submit_answer" /\ ret'.session_id \in DOMAIN session) =>
          IF Finished(session[ret'.session_id]) THEN session' = session
          ELSE IF ret'.out.kind = "value"
          THEN /\ SubmitEffect(session[ret'.session_id], session'[ret'.session_id],
                               ret'.answer.v)
               /\ \A id \in DOMAIN session \ {ret'.session_id} : session'[id] = session[id]
          ELSE session' = session

\* C19: in every practice session 0 <= score <= current_index == len(answers)
\* <= len(questions); get_next_question changes no session, a successful
\* submit_answer advances current_index and len(answers) by one and score by one
\* exactly when the answer equals the question's Answer after lowercasing and
\* trimming both, and a submit_answer on a finished session changes nothing.
C19_SessionCounters == []SessionInvariant /\ [][SessionStep]_vars

\* an answer that differs from the Answer in case and spaces was counted as
\* correct, it finished the session, and a further submit_answer was refused
C19_Witness ==
    /\ ret.op = "submit_answer"
    /\ ret.out = Raised
    /\ ret.answer.k = "str"
    /\ ret.session_id \in DOMAIN session
    /\ Finished(session[ret.session_id])
    /\ session[ret.session_id].score = 2
    /\ \E i \in 1..Len(session[ret.session_id].answers) :
          LET a == session[ret.session_id].answers[i] IN
              a.is_correct /\ a.user_answer # a.correct_answer

====
